---------------------------- MODULE Spec2Model ----------------------------
(***************************************************************************)
(* A model of generate_scc_report (src/cloudfunction.py): the Cloud        *)
(* Function that fetches the Security Command Center findings of each      *)
(* project of PROJECT_IDS, buckets them by category, writes one workbook   *)
(* per (project, category) and uploads it to Cloud Storage.                *)
(*                                                                         *)
(* Strings are strings: the f-strings of the source are built with \o, so  *)
(* a path or a summary line is the text the code produces.  Python's None  *)
(* is the value None below.                                                *)
(*                                                                         *)
(* The external calls (SecurityCenterClient.list_findings, pd.ExcelWriter, *)
(* Blob.upload_from_filename, os.remove) either return or raise; which of  *)
(* the two happens is the environment's choice.                            *)
(***************************************************************************)
EXTENDS Naturals, Sequences, FiniteSets, TLC

VARIABLES
    GCS_BUCKET,        \* os.environ.get("GCS_BUCKET")
    TIMESTAMP,         \* datetime.utcnow().strftime("%Y%m%d_%H%M%S")
    pc,                \* position in generate_scc_report
    pi,                \* index in PROJECT_IDS of the project being processed
    all_data,          \* the findings fetched for the current project
    category_buckets,  \* dict category -> items, as its items() in insertion order
    ci,                \* index in category_buckets.items() of the current CATEGORY
    OUTPUT_EXCEL,      \* local path of the current workbook
    GCS_EXCEL_PATH,    \* destination object name of the current workbook
    vms,               \* rows of the sheet "VMs"
    k8s,               \* rows of the sheet "Kubernetes"
    summary,           \* the list of summary lines
    e,                 \* the exception caught for the current project, or None
    localFiles,        \* the files under /tmp
    gcs,               \* the objects of the bucket: object name -> uploaded file
    queries,           \* number of list_findings calls issued, per project index
    uploadCount,       \* number of upload_from_filename calls that returned
    raised,            \* history: the exceptions raised inside the try block
    response           \* what generate_scc_report returned, or None

vars == <<GCS_BUCKET, TIMESTAMP, pc, pi, all_data, category_buckets, ci,
          OUTPUT_EXCEL, GCS_EXCEL_PATH, vms, k8s, summary, e, localFiles,
          gcs, queries, uploadCount, raised, response>>

-----------------------------------------------------------------------------
(* Bounds of the model *)

\* the loop runs over the first MaxProjects entries of PROJECT_IDS
MaxProjects == 2
\* a list_findings call yields at most MaxFindings results
MaxFindings == 2

-----------------------------------------------------------------------------
(* Configuration: lines 19-76 *)

None == "<None>"

PROJECT_IDS ==
    << "toorak-396910",
       "merchants-396910",
       "shared-infrastructure-396910",
       "network-396910",
       "dev-ops-396910",
       "table-funding",
       "originator-platform-396910" >>

NumProjects == IF MaxProjects < Len(PROJECT_IDS) THEN MaxProjects ELSE Len(PROJECT_IDS)

CATEGORY_FOLDER_MAP ==
    [c \in {"SOFTWARE_VULNERABILITY", "OS_VULNERABILITY"} |->
        IF c = "SOFTWARE_VULNERABILITY" THEN "software_vulnerabilities"
                                        ELSE "OS_vulnerabilities"]

PROJECT_FOLDER_MAP ==
    [p \in {"dev-ops-396910", "merchants-396910", "network-396910",
            "toorak-396910", "shared-infrastructure-396910", "table-funding",
            "originator-platform-396910"} |->
        CASE p = "dev-ops-396910" -> "devops"
          [] p = "merchants-396910" -> "mmtc"
          [] p = "network-396910" -> "network"
          [] p = "toorak-396910" -> "tc"
          [] p = "shared-infrastructure-396910" -> "si"
          [] p = "table-funding" -> "tf"
          [] p = "originator-platform-396910" -> "op"]

\* dict.get(key): the value, or None when the key is absent
Get(map, key) == IF key \in DOMAIN map THEN map[key] ELSE None

\* Python truthiness of a str-or-None value
Truthy(v) == v # None /\ v # ""


\* if not GCS_BUCKET (line 33)
BucketMissingNoneOnly(v) == v = None
BucketMissing(v) == ~Truthy(v)

\* if not top_level_folder or not project_folder (line 130)
MissingMappingNever(top, pf) == FALSE
MissingMapping(top, pf) == ~Truthy(top) \/ ~Truthy(pf)

-----------------------------------------------------------------------------
(* The text the code builds *)

\* OUTPUT_EXCEL (line 138)
LocalPath(p, c, ts) == "/tmp/scc_" \o p \o "_" \o c \o "_" \o ts \o ".xlsx"

\* GCS_EXCEL_PATH (lines 144-147)
GcsPathNoCategory(top, pf, p, ts) ==
    "SCC-Reports/" \o pf \o "/scc_" \o p \o "_" \o ts \o ".xlsx"
GcsPath(top, pf, p, ts) ==
    "SCC-Reports/" \o top \o "/" \o pf \o "/scc_" \o p \o "_" \o ts \o ".xlsx"

\* the ValueError of lines 131-133
MissingMappingText(c, p) ==
    "Missing folder mapping for CATEGORY=" \o c \o ", PROJECT_ID=" \o p

\* str(e) of an exception raised by an external call: an opaque text
ExternalError(call) == call \o " failed"

\* the summary lines (lines 107, 281, 284)
NoFindingsLineAsSuccess(p) == p \o ": SUCCESS"
NoFindingsLine(p) == p \o ": SUCCESS (No findings)"
SuccessLine(p) == p \o ": SUCCESS"
FailedLine(p, msg) == p \o ": FAILED (" \o msg \o ")"

\* sep.join(lines)
RECURSIVE Join(_, _)
Join(lines, sep) ==
    IF lines = <<>> THEN ""
    ELSE IF Len(lines) = 1 THEN lines[1]
    ELSE lines[1] \o sep \o Join(Tail(lines), sep)

\* the two return values (lines 34 and 290-293)
ErrorResponse ==
    [body |-> "ERROR: GCS_BUCKET environment variable must be set", status |-> 500]
FinalResponse(lines) ==
    [body |-> "SCC report generation completed\n\n" \o Join(lines, "\n"),
     status |-> 200]

-----------------------------------------------------------------------------
(* Findings.  An item of all_data is [finding, resource] (lines 99-102); of  *)
(* a finding the model keeps its category ("" when absent), the workload     *)
(* objects of its kubernetes detail (their names) and, as `name`, its place  *)
(* in the result stream, which stands for the rest of its content; of a      *)
(* resource, its type.                                                       *)

Instance == "google.compute.Instance"
Cluster == "google.container.Cluster"
OtherType == "google.cloud.sql.Instance"

Item(n, category, type, objects) ==
    [finding |-> [name |-> n, category |-> category, objects |-> objects],
     resource |-> [type |-> type]]

\* what list_findings may yield: every list of at most MaxFindings items
\* whose (category, type, objects) are drawn from Shapes
Results(Shapes) ==
    UNION { { [i \in 1..n |-> Item(i, f[i][1], f[i][2], f[i][3])] :
                f \in [1..n -> Shapes] } : n \in 0..MaxFindings }

\* the runs of the pipeline: any category, compute instances
RunShapes ==
    {"SOFTWARE_VULNERABILITY", "OS_VULNERABILITY", "MISCONFIGURATION", ""}
        \X {Instance} \X {<<>>}

\* the rows of the sheets: mapped categories, every kind of resource
RowShapes ==
    { <<c, r[1], r[2]>> :
        c \in {"SOFTWARE_VULNERABILITY", "OS_VULNERABILITY"},
        r \in ({Instance, OtherType} \X {<<>>})
              \cup ({Cluster} \X {<<>>, <<"pod-a">>, <<"pod-a", "pod-b">>}) }

-----------------------------------------------------------------------------
(* Bucket findings by category: lines 113-117 *)

\* finding_data.category or "UNKNOWN"
CategoryOf(item) ==
    IF item.finding.category # "" THEN item.finding.category ELSE "UNKNOWN"

\* category_buckets.setdefault(category, []).append(item)
SetDefaultAppend(buckets, category, item) ==
    IF \E k \in 1..Len(buckets) : buckets[k].category = category
    THEN [k \in 1..Len(buckets) |->
            IF buckets[k].category = category
            THEN [buckets[k] EXCEPT !.findings = Append(@, item)]
            ELSE buckets[k]]
    ELSE Append(buckets, [category |-> category, findings |-> <<item>>])

RECURSIVE CategorizeFrom(_, _)
CategorizeFrom(buckets, data) ==
    IF data = <<>> THEN buckets
    ELSE CategorizeFrom(SetDefaultAppend(buckets, CategoryOf(data[1]), data[1]),
                        Tail(data))

Categorize(data) == CategorizeFrom(<<>>, data)

-----------------------------------------------------------------------------
(* Process findings: lines 157-229.  base_row is a function of the finding   *)
(* alone; the model keeps the finding's name for it.                         *)

VmRow(item) == [finding |-> item.finding.name]

K8sRow(item, obj) == [finding |-> item.finding.name, k8s_object_name |-> obj]

\* one turn of the loop of line 160, on the pair of row lists
ProcessItemNoSkip(rows, item) ==
    IF item.resource.type = Instance
    THEN [rows EXCEPT !.vms = Append(@, VmRow(item))]
    ELSE IF item.resource.type = Cluster
    THEN [rows EXCEPT !.k8s = Append(@,
            K8sRow(item, IF item.finding.objects = <<>> THEN None
                         ELSE item.finding.objects[1]))]
    ELSE rows
ProcessItem(rows, item) ==
    IF item.resource.type = Instance
    THEN [rows EXCEPT !.vms = Append(@, VmRow(item))]
    ELSE IF item.resource.type = Cluster
    THEN IF item.finding.objects = <<>>
         THEN rows
         ELSE [rows EXCEPT !.k8s = Append(@, K8sRow(item, item.finding.objects[1]))]
    ELSE rows

RECURSIVE ProcessFrom(_, _)
ProcessFrom(rows, findings) ==
    IF findings = <<>> THEN rows
    ELSE ProcessFrom(ProcessItem(rows, findings[1]), Tail(findings))

ProcessFindings(findings) == ProcessFrom([vms |-> <<>>, k8s |-> <<>>], findings)

-----------------------------------------------------------------------------
(* generate_scc_report *)

Init ==
    /\ GCS_BUCKET \in {None, "", "scc-reports-bucket"}
    /\ TIMESTAMP \in {"20240101_000000"}
    /\ pc = "start"
    /\ pi = 0
    /\ all_data = <<>>
    /\ category_buckets = <<>>
    /\ ci = 0
    /\ OUTPUT_EXCEL = None
    /\ GCS_EXCEL_PATH = None
    /\ vms = <<>>
    /\ k8s = <<>>
    /\ summary = <<>>
    /\ e = None
    /\ localFiles = {}
    /\ gcs = {}
    /\ queries = [i \in 1..NumProjects |-> 0]
    /\ uploadCount = 0
    /\ raised = {}
    /\ response = None

PROJECT_ID == PROJECT_IDS[pi]
CATEGORY == category_buckets[ci].category

locals == <<all_data, category_buckets, ci, OUTPUT_EXCEL, GCS_EXCEL_PATH, vms, k8s>>
stores == <<localFiles, gcs, uploadCount>>
config == <<GCS_BUCKET, TIMESTAMP>>

\* lines 32-34: the bucket check
CheckBucket ==
    /\ pc = "start"
    /\ IF BucketMissing(GCS_BUCKET)
       THEN response' = ErrorResponse /\ pc' = "done"
       ELSE response' = response /\ pc' = "clients"
    /\ UNCHANGED <<config, pi, locals, summary, e, stores, queries, raised>>

\* lines 45-55: the clients are built outside the try block
CreateClients ==
    /\ pc = "clients"
    /\ pc' = "loop"
    /\ UNCHANGED <<config, pi, locals, summary, e, stores, queries, raised, response>>

\* a client constructor raises: nothing catches it, the function does not return
CreateClientsRaises ==
    /\ pc = "clients"
    /\ pc' = "raised"
    /\ UNCHANGED <<config, pi, locals, summary, e, stores, queries, raised, response>>

\* line 81: the next project.  all_data is emptied (line 88); the other locals
\* of the loop body are assigned before they are read again (lines 113, 138,
\* 144, 157, 158), so their old values are dropped here.
NextProject ==
    /\ pc = "loop"
    /\ pi < NumProjects
    /\ pi' = pi + 1
    /\ all_data' = <<>>
    /\ category_buckets' = <<>>
    /\ ci' = 0
    /\ OUTPUT_EXCEL' = None
    /\ GCS_EXCEL_PATH' = None
    /\ vms' = <<>>
    /\ k8s' = <<>>
    /\ e' = None
    /\ pc' = "fetch"
    /\ UNCHANGED <<config, summary, stores, queries, raised, response>>

\* lines 283-285: the handler of the project's try block
ExceptBreak(msg, category, step) ==
    /\ summary' = Append(summary, FailedLine(PROJECT_ID, msg))
    /\ e' = msg
    /\ raised' = raised \cup {[project |-> pi, category |-> category, step |-> step]}
    /\ pc' = "done"
ExceptSilent(msg, category, step) ==
    /\ summary' = summary
    /\ e' = msg
    /\ raised' = raised \cup {[project |-> pi, category |-> category, step |-> step]}
    /\ pc' = "loop"
Except(msg, category, step) ==
    /\ summary' = Append(summary, FailedLine(PROJECT_ID, msg))
    /\ e' = msg
    /\ raised' = raised \cup {[project |-> pi, category |-> category, step |-> step]}
    /\ pc' = "loop"

\* lines 88-117: the query returns; no findings ends the project, else the
\* findings are bucketed by category
ListFindings(results) ==
    /\ pc = "fetch"
    /\ \E result \in results :
        /\ all_data' = result
        /\ IF result = <<>>
           THEN /\ summary' = Append(summary, NoFindingsLine(PROJECT_ID))
                /\ pc' = "loop"
                /\ UNCHANGED <<category_buckets, ci>>
           ELSE /\ category_buckets' = Categorize(result)
                /\ ci' = 1
                /\ pc' = "resolve"
                /\ UNCHANGED summary
    /\ queries' = [queries EXCEPT ![pi] = @ + 1]
    /\ UNCHANGED <<config, pi, OUTPUT_EXCEL, GCS_EXCEL_PATH, vms, k8s, e, stores,
                   raised, response>>

\* line 98: the query raises
ListFindingsRaises ==
    /\ pc = "fetch"
    /\ queries' = [queries EXCEPT ![pi] = @ + 1]
    /\ Except(ExternalError("list_findings"), None, "list_findings")
    /\ UNCHANGED <<config, pi, locals, stores, response>>

\* lines 127-229: resolve the folders of CATEGORY, name the files, build the
\* rows.  Building the rows reads fields of protobuf messages (an unset field
\* reads as its empty default) and indexes k8s_objects only when it is not
\* empty: it does not raise.
ResolveFolders ==
    /\ pc = "resolve"
    /\ LET top_level_folder == Get(CATEGORY_FOLDER_MAP, CATEGORY)
           project_folder == Get(PROJECT_FOLDER_MAP, PROJECT_ID)
           rows == ProcessFindings(category_buckets[ci].findings)
       IN  IF MissingMapping(top_level_folder, project_folder)
           THEN /\ Except(MissingMappingText(CATEGORY, PROJECT_ID), CATEGORY, "resolve")
                /\ UNCHANGED <<OUTPUT_EXCEL, GCS_EXCEL_PATH, vms, k8s>>
           ELSE /\ OUTPUT_EXCEL' = LocalPath(PROJECT_ID, CATEGORY, TIMESTAMP)
                /\ GCS_EXCEL_PATH' =
                       GcsPath(top_level_folder, project_folder, PROJECT_ID, TIMESTAMP)
                /\ vms' = rows.vms
                /\ k8s' = rows.k8s
                /\ pc' = "write"
                /\ UNCHANGED <<summary, e, raised>>
    /\ UNCHANGED <<config, pi, all_data, category_buckets, ci, stores, queries, response>>

\* lines 234-242: the workbook is written to OUTPUT_EXCEL
WriteExcel ==
    /\ pc = "write"
    /\ localFiles' = localFiles \cup {OUTPUT_EXCEL}
    /\ pc' = "upload"
    /\ UNCHANGED <<config, pi, locals, summary, e, gcs, uploadCount, queries, raised,
                   response>>

\* the writer raises: ExcelWriter opens OUTPUT_EXCEL before the sheets are
\* written, so the file exists or not according to where it failed
WriteExcelRaises ==
    /\ pc = "write"
    /\ \E created \in BOOLEAN :
        localFiles' = IF created THEN localFiles \cup {OUTPUT_EXCEL} ELSE localFiles
    /\ Except(ExternalError("to_excel"), CATEGORY, "to_excel")
    /\ UNCHANGED <<config, pi, locals, gcs, uploadCount, queries, response>>

\* line 265: upload_from_filename creates or replaces the object
Upload ==
    /\ pc = "upload"
    /\ OUTPUT_EXCEL \in localFiles
    /\ gcs' = {o \in gcs : o.name # GCS_EXCEL_PATH}
                \cup {[name |-> GCS_EXCEL_PATH, file |-> OUTPUT_EXCEL]}
    /\ uploadCount' = uploadCount + 1
    /\ pc' = "remove"
    /\ UNCHANGED <<config, pi, locals, summary, e, localFiles, queries, raised, response>>

UploadRaises ==
    /\ pc = "upload"
    /\ Except(ExternalError("upload_from_filename"), CATEGORY, "upload_from_filename")
    /\ UNCHANGED <<config, pi, locals, stores, queries, response>>

\* os.remove(path)
RemoveFileKeeps(files, path) == files
RemoveFile(files, path) == files \ {path}

\* whether category_buckets.items() has a CATEGORY after the current one
MoreCategoriesNever == FALSE
MoreCategories == ci < Len(category_buckets)

\* lines 278-281: the workbook is removed; then the next CATEGORY, or past the
\* last one the project's SUCCESS line
Remove ==
    /\ pc = "remove"
    /\ OUTPUT_EXCEL \in localFiles
    /\ localFiles' = RemoveFile(localFiles, OUTPUT_EXCEL)
    /\ IF MoreCategories
       THEN ci' = ci + 1 /\ pc' = "resolve" /\ UNCHANGED summary
       ELSE ci' = ci /\ pc' = "loop"
            /\ summary' = Append(summary, SuccessLine(PROJECT_ID))
    /\ UNCHANGED <<config, pi, all_data, category_buckets, OUTPUT_EXCEL, GCS_EXCEL_PATH,
                   vms, k8s, e, gcs, uploadCount, queries, raised, response>>

RemoveRaises ==
    /\ pc = "remove"
    /\ Except(ExternalError("remove"), CATEGORY, "remove")
    /\ UNCHANGED <<config, pi, locals, stores, queries, response>>

\* lines 290-293: past the last project, the response
Return ==
    /\ pc = "loop"
    /\ pi = NumProjects
    /\ response' = FinalResponse(summary)
    /\ pc' = "done"
    /\ UNCHANGED <<config, pi, locals, summary, e, stores, queries, raised>>

Next ==
    \/ CheckBucket
    \/ CreateClients
    \/ CreateClientsRaises
    \/ NextProject
    \/ ListFindings(Results(RunShapes))
    \/ ListFindingsRaises
    \/ ResolveFolders
    \/ WriteExcel
    \/ WriteExcelRaises
    \/ Upload
    \/ UploadRaises
    \/ Remove
    \/ RemoveRaises
    \/ Return

Spec == Init /\ [][Next]_vars

\* the same function where no external call raises, on findings of every
\* kind of resource
NextRows ==
    \/ CheckBucket
    \/ CreateClients
    \/ NextProject
    \/ ListFindings(Results(RowShapes))
    \/ ResolveFolders
    \/ WriteExcel
    \/ Upload
    \/ Remove
    \/ Return

SpecRows == Init /\ [][NextRows]_vars

-----------------------------------------------------------------------------
(* Vocabulary of the properties *)

InProject == pc \in {"fetch", "resolve", "write", "upload", "remove"}

\* the project whose try block has just ended, its locals still in place
AtProjectEnd == pc = "loop" /\ pi >= 1

ObjectNames == {o.name : o \in gcs}

\* the label under which a finding is bucketed
Label(item) == IF item.finding.category = "" THEN "UNKNOWN" ELSE item.finding.category

Labels == {"SOFTWARE_VULNERABILITY", "OS_VULNERABILITY", "MISCONFIGURATION", "UNKNOWN"}

Mapped(p, c) == c \in DOMAIN CATEGORY_FOLDER_MAP /\ p \in DOMAIN PROJECT_FOLDER_MAP

\* where the workbook of (p, c) is written and where it is uploaded
FileOf(p, c) == "/tmp/scc_" \o p \o "_" \o c \o "_" \o TIMESTAMP \o ".xlsx"
ObjectOf(p, c) ==
    "SCC-Reports/" \o Get(CATEGORY_FOLDER_MAP, c) \o "/" \o Get(PROJECT_FOLDER_MAP, p)
        \o "/scc_" \o p \o "_" \o TIMESTAMP \o ".xlsx"

\* nothing of (p, c) on disk or in the bucket
NoTraceOf(p, c) ==
    /\ FileOf(p, c) \notin localFiles
    /\ \A o \in gcs : o.file # FileOf(p, c) /\ o.name # ObjectOf(p, c)

\* the workbook of (p, c) was written, uploaded and removed
Delivered(p, c) ==
    /\ [name |-> ObjectOf(p, c), file |-> FileOf(p, c)] \in gcs
    /\ FileOf(p, c) \notin localFiles

ExternalCalls == {"list_findings", "to_excel", "upload_from_filename", "remove"}

IsFailedLine(line, p) ==
    \/ \E call \in ExternalCalls : line = p \o ": FAILED (" \o call \o " failed)"
    \/ \E c \in Labels :
         line = p \o ": FAILED (Missing folder mapping for CATEGORY=" \o c
                  \o ", PROJECT_ID=" \o p \o ")"

\* the labels of a list of findings, in order of first occurrence
RECURSIVE FirstSeen(_, _)
FirstSeen(data, seen) ==
    IF data = <<>> THEN seen
    ELSE FirstSeen(Tail(data),
                   IF \E k \in 1..Len(seen) : seen[k] = Label(data[1])
                   THEN seen ELSE Append(seen, Label(data[1])))

\* the external calls that raised for project i (at most one does)
FaultsOf(i) == {r \in raised : r.project = i /\ r.step \in ExternalCalls}

\* the summary line of a project processed on its own: a function of its
\* findings and of the external call that raised for it, if one did
RECURSIVE OutcomeFrom(_, _, _)
OutcomeFrom(p, labels, faults) ==
    IF labels = <<>> THEN p \o ": SUCCESS"
    ELSE IF ~Mapped(p, labels[1])
    THEN p \o ": FAILED (Missing folder mapping for CATEGORY=" \o labels[1]
           \o ", PROJECT_ID=" \o p \o ")"
    ELSE IF \E r \in faults : r.category = labels[1]
    THEN LET r == CHOOSE r \in faults : r.category = labels[1]
         IN  p \o ": FAILED (" \o r.step \o " failed)"
    ELSE OutcomeFrom(p, Tail(labels), faults)

IsolatedOutcome(p, data, faults) ==
    IF \E r \in faults : r.step = "list_findings"
    THEN p \o ": FAILED (list_findings failed)"
    ELSE IF data = <<>> THEN p \o ": SUCCESS (No findings)"
    ELSE OutcomeFrom(p, FirstSeen(data, <<>>), faults)

-----------------------------------------------------------------------------
(* C1: a run that gets past the bucket check returns the fixed header       *)
(* followed by exactly one summary line per project, in PROJECT_IDS order,  *)
(* each line "<id>: SUCCESS", "<id>: SUCCESS (No findings)" or              *)
(* "<id>: FAILED (<error text>)", whatever the outcome of each project.     *)
C1_OneLinePerProject ==
    /\ Len(summary) = (IF InProject THEN pi - 1 ELSE pi)
    /\ \A i \in 1..Len(summary) :
        \/ summary[i] = PROJECT_IDS[i] \o ": SUCCESS"
        \/ summary[i] = PROJECT_IDS[i] \o ": SUCCESS (No findings)"
        \/ IsFailedLine(summary[i], PROJECT_IDS[i])
    /\ (pc = "done" /\ Truthy(GCS_BUCKET)) =>
        /\ Len(summary) = NumProjects
        /\ response.body = "SCC report generation completed\n\n" \o Join(summary, "\n")

\* a returned run whose first project failed and whose second one succeeded
C1_Witness ==
    /\ pc = "done"
    /\ Len(summary) = NumProjects
    /\ IsFailedLine(summary[1], PROJECT_IDS[1])
    /\ summary[2] = PROJECT_IDS[2] \o ": SUCCESS"

(* C2: an exception raised for one project aborts that project only: the    *)
(* project is recorded FAILED, every project is queried exactly once        *)
(* whatever failed before it, each project starts from the same local state *)
(* and its summary line is the one its own findings and faults determine.   *)
C2_FailureIsolated ==
    /\ \A r \in raised :
        r.project <= Len(summary) => IsFailedLine(summary[r.project], PROJECT_IDS[r.project])
    /\ pc \notin {"start", "clients", "raised"} =>
        \A i \in 1..NumProjects :
            queries[i] = (IF i < pi \/ (i = pi /\ pc # "fetch") THEN 1 ELSE 0)
    /\ (pc = "done" /\ Truthy(GCS_BUCKET)) => \A i \in 1..NumProjects : queries[i] = 1
    /\ pc = "fetch" =>
        /\ all_data = <<>> /\ category_buckets = <<>> /\ ci = 0
        /\ vms = <<>> /\ k8s = <<>> /\ e = None
        /\ OUTPUT_EXCEL = None /\ GCS_EXCEL_PATH = None
    /\ AtProjectEnd =>
        summary[pi] = IsolatedOutcome(PROJECT_ID, all_data, FaultsOf(pi))

\* the first project failed; the second was queried once and succeeded
C2_Witness ==
    /\ AtProjectEnd
    /\ pi = 2
    /\ \E r \in raised : r.project = 1
    /\ queries[2] = 1
    /\ summary[2] = PROJECT_IDS[2] \o ": SUCCESS"

(* C3: the status is 500 exactly when GCS_BUCKET is absent or empty, and    *)
(* then the function returns before any findings query or storage           *)
(* operation; when the setting is present the status is 200 whatever        *)
(* number of projects failed.                                               *)
C3_StatusByBucket ==
    /\ pc = "done" =>
        /\ response.status \in {200, 500}
        /\ response.status = 500 <=> GCS_BUCKET \in {None, ""}
    /\ GCS_BUCKET \in {None, ""} =>
        /\ pc \in {"start", "done"}
        /\ \A i \in 1..NumProjects : queries[i] = 0
        /\ gcs = {} /\ uploadCount = 0 /\ localFiles = {}
        /\ summary = <<>>

\* the empty setting: status 500
C3_Witness == pc = "done" /\ GCS_BUCKET = "" /\ response.status = 500

\* the setting present and every project failed: status 200
C3_WitnessAllFailed ==
    /\ pc = "done"
    /\ response.status = 200
    /\ \A i \in 1..NumProjects : IsFailedLine(summary[i], PROJECT_IDS[i])

(* C4: when the query of a project returns zero results, its summary line   *)
(* is "SUCCESS (No findings)" and nothing is written, uploaded or removed   *)
(* for that project.                                                        *)
C4_NoFindings ==
    /\ (AtProjectEnd /\ all_data = <<>> /\ e = None) =>
        summary[pi] = PROJECT_ID \o ": SUCCESS (No findings)"
    /\ \A i \in 1..Len(summary) :
        summary[i] = PROJECT_IDS[i] \o ": SUCCESS (No findings)" =>
            /\ \A c \in Labels : NoTraceOf(PROJECT_IDS[i], c)
            /\ \A r \in raised : r.project # i
            /\ queries[i] = 1

\* a project without findings next to a project whose workbook was uploaded
C4_Witness ==
    /\ pc = "done"
    /\ Len(summary) = NumProjects
    /\ summary[1] = PROJECT_IDS[1] \o ": SUCCESS"
    /\ summary[2] = PROJECT_IDS[2] \o ": SUCCESS (No findings)"
    /\ gcs # {}

(* C5: a category (or project) without an entry in the folder maps fails    *)
(* before anything is written or uploaded for it, the project is recorded   *)
(* FAILED with the missing-mapping reason, and the uploads of the           *)
(* categories of that project processed before it stay in the bucket.       *)
C5_MissingMapping ==
    /\ pc \in {"write", "upload", "remove"} => Mapped(PROJECT_ID, CATEGORY)
    /\ (AtProjectEnd /\ ci >= 1 /\ ~Mapped(PROJECT_ID, CATEGORY)) =>
        /\ summary[pi] =
             PROJECT_ID \o ": FAILED (Missing folder mapping for CATEGORY="
                \o CATEGORY \o ", PROJECT_ID=" \o PROJECT_ID \o ")"
        /\ NoTraceOf(PROJECT_ID, CATEGORY)
        /\ \A k \in 1..(ci - 1) :
             [name |-> ObjectOf(PROJECT_ID, category_buckets[k].category),
              file |-> FileOf(PROJECT_ID, category_buckets[k].category)] \in gcs
    /\ \A r \in raised :
        r.step = "resolve" =>
            /\ ~Mapped(PROJECT_IDS[r.project], r.category)
            /\ NoTraceOf(PROJECT_IDS[r.project], r.category)
    /\ Cardinality(gcs) = uploadCount

\* an unmapped category fails after another category of the project was uploaded
C5_Witness ==
    /\ AtProjectEnd
    /\ ci = 2
    /\ CATEGORY = "MISCONFIGURATION"
    /\ e = "Missing folder mapping for CATEGORY=MISCONFIGURATION, PROJECT_ID=" \o PROJECT_ID
    /\ \E o \in gcs : o.file = FileOf(PROJECT_ID, category_buckets[1].category)

(* C6: a project's line is plain SUCCESS exactly when it had at least one   *)
(* finding and every category bucket was written, uploaded and its          *)
(* temporary file removed; a failure in any category marks the project      *)
(* FAILED even when earlier categories were uploaded, and no later          *)
(* category of the project is processed after the failure.                  *)
C6_SuccessMeansAllDelivered ==
    AtProjectEnd =>
        /\ summary[pi] = PROJECT_ID \o ": SUCCESS" <=>
             /\ all_data # <<>>
             /\ \A k \in 1..Len(category_buckets) :
                  Delivered(PROJECT_ID, category_buckets[k].category)
        /\ e # None =>
             /\ summary[pi] = PROJECT_ID \o ": FAILED (" \o e \o ")"
             /\ \A k \in 1..Len(category_buckets) :
                  /\ k < ci => Delivered(PROJECT_ID, category_buckets[k].category)
                  /\ k > ci => NoTraceOf(PROJECT_ID, category_buckets[k].category)
        /\ e = None => ci = Len(category_buckets)

\* the first category was delivered, the second failed at its upload
C6_Witness ==
    /\ AtProjectEnd
    /\ ci = 2
    /\ e = "upload_from_filename failed"
    /\ Delivered(PROJECT_ID, category_buckets[1].category)
    /\ IsFailedLine(summary[pi], PROJECT_ID)

\* a failure in the first of two categories: the second is never processed
C6_WitnessLaterSkipped ==
    /\ AtProjectEnd
    /\ ci = 1
    /\ Len(category_buckets) = 2
    /\ e # None

(* C7: in every bucket that is written, the VM table has exactly one row    *)
(* per compute-instance finding of the bucket, the Kubernetes table exactly *)
(* one row per container-cluster finding with at least one workload object  *)
(* (its first one), and no other finding has a row; no finding has a row in *)
(* both tables or in the tables of another category.                        *)
C7_RowsPartition ==
    pc \in {"write", "upload", "remove"} =>
        LET InBucket == {i \in 1..Len(all_data) : Label(all_data[i]) = CATEGORY}
            VmOnes == {i \in InBucket : all_data[i].resource.type = Instance}
            K8sOnes == {i \in InBucket :
                            /\ all_data[i].resource.type = Cluster
                            /\ Len(all_data[i].finding.objects) >= 1}
        IN  /\ {vms[j].finding : j \in 1..Len(vms)} = {all_data[i].finding.name : i \in VmOnes}
            /\ Len(vms) = Cardinality(VmOnes)
            /\ {k8s[j].finding : j \in 1..Len(k8s)} = {all_data[i].finding.name : i \in K8sOnes}
            /\ Len(k8s) = Cardinality(K8sOnes)
            /\ \A j \in 1..Len(k8s) :
                 \E i \in K8sOnes :
                    /\ all_data[i].finding.name = k8s[j].finding
                    /\ k8s[j].k8s_object_name = all_data[i].finding.objects[1]
            /\ \A j \in 1..Len(vms), l \in 1..Len(k8s) : vms[j].finding # k8s[l].finding

\* a written bucket of a cluster finding without workload objects and a
\* compute-instance finding: one VM row, no Kubernetes row
C7_Witness ==
    /\ pc = "upload"
    /\ Len(category_buckets[ci].findings) = 2
    /\ \E k \in 1..2 :
         /\ category_buckets[ci].findings[k].resource.type = Cluster
         /\ category_buckets[ci].findings[k].finding.objects = <<>>
    /\ Len(vms) = 1
    /\ k8s = <<>>

(* C8: a finding whose category is absent is bucketed under "UNKNOWN", and  *)
(* a project is not recorded FAILED because of such a finding.              *)
C8_UnknownIsNotAnError ==
    /\ pc \in {"resolve", "write", "upload", "remove"} =>
        \A i \in 1..Len(all_data) :
            all_data[i].finding.category = "" =>
                \E k \in 1..Len(category_buckets) :
                    /\ category_buckets[k].category = "UNKNOWN"
                    /\ \E j \in 1..Len(category_buckets[k].findings) :
                         category_buckets[k].findings[j] = all_data[i]
    /\ AtProjectEnd =>
        summary[pi] # PROJECT_ID \o ": FAILED (Missing folder mapping for CATEGORY=UNKNOWN"
                          \o ", PROJECT_ID=" \o PROJECT_ID \o ")"

\* the part of C8 the code keeps: the bucket of a finding without category
C8_BucketedAsUnknown ==
    pc \in {"resolve", "write", "upload", "remove"} =>
        \A i \in 1..Len(all_data) :
            all_data[i].finding.category = "" =>
                \E k \in 1..Len(category_buckets) :
                    /\ category_buckets[k].category = "UNKNOWN"
                    /\ \E j \in 1..Len(category_buckets[k].findings) :
                         category_buckets[k].findings[j] = all_data[i]

\* the temporary file of the iteration in which exception r was raised
FileOfRaise(r) == FileOf(PROJECT_IDS[r.project], r.category)

\* write, upload, remove happen in that order on the same file: a file is
\* uploaded only once written and removed only once its upload returned, and
\* a file that was uploaded is still on disk only while its removal is
\* pending or when the removal raised
StepsInOrder ==
    /\ pc = "upload" => OUTPUT_EXCEL \in localFiles
    /\ pc = "remove" =>
        /\ OUTPUT_EXCEL \in localFiles
        /\ [name |-> GCS_EXCEL_PATH, file |-> OUTPUT_EXCEL] \in gcs
    /\ pc \in {"write", "upload", "remove"} =>
        /\ OUTPUT_EXCEL = FileOf(PROJECT_ID, CATEGORY)
        /\ GCS_EXCEL_PATH = ObjectOf(PROJECT_ID, CATEGORY)
    /\ \A o \in gcs :
        o.file \in localFiles =>
            \/ pc = "remove" /\ o.file = OUTPUT_EXCEL
            \/ \E r \in raised : r.step = "remove" /\ FileOfRaise(r) = o.file

\* every file on disk is the file of the iteration under way or the file of
\* an iteration in which one of `calls` raised
LeftOnlyAfter(calls) ==
    \A f \in localFiles :
        \/ pc \in {"upload", "remove"} /\ f = OUTPUT_EXCEL
        \/ \E r \in raised : r.step \in calls /\ FileOfRaise(r) = f

C10_OwnDestination ==
    /\ pc = "start" =>
        \A i, j \in 1..Len(PROJECT_IDS), c, d \in DOMAIN CATEGORY_FOLDER_MAP :
            <<i, c>> # <<j, d>> =>
                GcsPath(CATEGORY_FOLDER_MAP[c], PROJECT_FOLDER_MAP[PROJECT_IDS[i]],
                        PROJECT_IDS[i], TIMESTAMP)
                # GcsPath(CATEGORY_FOLDER_MAP[d], PROJECT_FOLDER_MAP[PROJECT_IDS[j]],
                          PROJECT_IDS[j], TIMESTAMP)
    /\ pc \in {"write", "upload"} => GCS_EXCEL_PATH \notin ObjectNames
    /\ \A o1, o2 \in gcs : o1.name = o2.name => o1.file = o2.file
    /\ \A o1, o2 \in gcs : o1.file = o2.file => o1.name = o2.name
    /\ Cardinality(gcs) = uploadCount

\* both mapped categories of one project were uploaded
C10_Witness ==
    /\ pc = "remove"
    /\ ci = 2
    /\ uploadCount >= 2
    /\ \E o \in gcs : o.file = FileOf(PROJECT_ID, category_buckets[1].category)

=============================================================================
